---- MODULE Spec2Model ----
(***************************************************************************)
(* tiny_id: ShortCodeGenerator (src/src/lib.rs) over the full-period       *)
(* LinearCongruentMultiplier of mod lcm (modelled from its specification   *)
(* and from test_lcm).                                                     *)
(*                                                                         *)
(* The ChaCha12Rng seed source is an external deterministic stream whose   *)
(* values are unknown: the values it yields are chosen nondeterministically*)
(* the first time a stream position is read and recorded in `draws`, so    *)
(* that every clone of the rng reads the same value at the same position.  *)
(* The generator always holds its rng (rng = Some, as the constructor      *)
(* leaves it); alphabets are sequences of distinct symbols; the builder    *)
(* exhaustion_strategy is called before the first code is drawn.           *)
(*                                                                         *)
(* Bounds: alphabets of 1..MaxAlphabet symbols, lengths 0..MaxLength and   *)
(* MaxCalls calls for a generator on its own; for a partitioned one,       *)
(* MaxParAlphabet, MaxParLength, at most MaxSplitAt calls before the       *)
(* split, 0..MaxParts partitions and MaxPartCalls calls on each. The seed  *)
(* and the offset of the first build range over all of 0..m-1, those of a  *)
(* rebuild over the values up to MaxReseed. For a multiplier on its own:   *)
(* moduli 1..MaxModulus, every seed below the modulus, multipliers         *)
(* 0..MaxMultiplier, increments 0..MaxIncrement and MaxLcmCalls calls.     *)
(***************************************************************************)
EXTENDS Integers, Sequences, FiniteSets, TLC

\* ---------------------------------------------------------------- bounds
MaxAlphabet == 3
MaxLength == 2
MaxCalls == 10
MaxParAlphabet == 2
MaxParLength == 1
MaxParts == 3
MaxPartCalls == 3
MaxSplitAt == 2
MaxReseed == 1
MaxModulus == 9
MaxMultiplier == 13
MaxIncrement == 1
MaxLcmCalls == 10

VARIABLES
    gen,     \* the unpartitioned generator G
    outs,    \* what each next_vec call on gen returned, in call order
    par,     \* the call G.into_parallel_generators(n), which consumes G, if made:
             \* src is the clone G' of G taken just before the call
    parts,   \* the partitions that call returned
    pouts,   \* per partition, what each of its next_vec calls returned
    redo,    \* the last into_parallel_generators call made on a clone of a partition
    draws,   \* the values the seed source has yielded so far, by stream position
    lcm,     \* a LinearCongruentMultiplier used on its own, as in test_lcm
    seen     \* what each next() call on lcm returned, and exhausted() after it

vars == <<gen, outs, par, parts, pouts, redo, draws, lcm, seen>>

\* ------------------------------------------------------------ arithmetic
RECURSIVE Pow(_, _)
Pow(b, e) == IF e = 0 THEN 1 ELSE b * Pow(b, e - 1)

RECURSIVE Product(_)
Product(S) == IF S = {} THEN 1 ELSE LET x == CHOOSE y \in S : TRUE IN x * Product(S \ {x})

Symbols == <<"a", "b", "c", "d", "e", "f">>

\* an alphabet of b distinct symbols
Alphabet(b) == SubSeq(Symbols, 1, b)

None == <<>>
Some(x) == <<x>>
is_some(o) == o # None
unwrap_or_default(o) == IF o = None THEN 0 ELSE o[1]

Cycle == "Cycle"
IncreaseLength == "IncreaseLength"
Panic == "Panic"
ExhaustionStrategy == {Cycle, IncreaseLength, Panic}
ExhaustionStrategy_default == IncreaseLength

\* ------------------------------------------ lcm (LinearCongruentMultiplier)
\* every divisor of n from 2 on, prime or not
DivisorsFrom2(n) == {p \in 2..n : n % p = 0}

DistinctPrimeFactors(n) ==
    {p \in 2..n : n % p = 0 /\ \A q \in 2..(p - 1) : p % q # 0}

\* generate_a without the doubling for an even base
generate_a_never_doubled(m_base) ==
    Product(DistinctPrimeFactors(m_base)) + 1

generate_a(m_base) ==
    LET k == Product(DistinctPrimeFactors(m_base))
    IN  (IF m_base % 2 = 0 THEN 2 * k ELSE k) + 1

LinearCongruentMultiplier_new(seed, m, c, a) ==
    [first |-> seed, next |-> seed, m |-> m, c |-> c, a |-> a, exhausted |-> FALSE]

\* lcm_next without the increment c
lcm_next_without_c(l) ==
    LET n == (l.a * l.next) % l.m
    IN  [l EXCEPT !.next = n, !.exhausted = (l.exhausted \/ n = l.first)]

\* lcm_next whose exhausted flag is recomputed by every call
lcm_next_exhausted_not_kept(l) ==
    LET n == (l.a * l.next + l.c) % l.m
    IN  [l EXCEPT !.next = n, !.exhausted = (n = l.first)]

\* the state of the multiplier after next(); next() returns l.next
lcm_next(l) ==
    LET n == (l.a * l.next + l.c) % l.m
    IN  [l EXCEPT !.next = n, !.exhausted = (l.exhausted \/ n = l.first)]

lcm_exhausted(l) == l.exhausted

\* the k-fold iterate of x -> (a * x + c) mod m applied to x
RECURSIVE Iterate(_, _, _, _, _)
Iterate(x, m, c, a, k) ==
    IF k = 0 THEN x ELSE Iterate((a * x + c) % m, m, c, a, k - 1)

\* ------------------------------------------------------------ seed source
\* rng.gen_range(0..m) on the stream `o`: the value at the next position
\* (position word_pos + 1); the rng is then one position further.
gen_range(rng, o) == IF rng.word_pos + 1 <= Len(o) THEN o[rng.word_pos + 1] ELSE 0

rng_advance(rng) == [rng EXCEPT !.word_pos = @ + 1]

\* ------------------------------------------------------ ShortCodeGenerator
\* with_alphabet_and_rng with the base itself as the multiplier, not generate_a
with_alphabet_and_rng_base_as_a(alphabet, length, rng, o) ==
    LET m_base == Len(alphabet)
        m == Pow(m_base, length)
        a == m_base
        lcm_seed == gen_range(rng, o)
        rng1 == rng_advance(rng)
        offset == gen_range(rng1, o)
        rng2 == rng_advance(rng1)
    IN  [alphabet |-> alphabet,
         lcm |-> LinearCongruentMultiplier_new(lcm_seed, m, 1, a),
         offset |-> offset,
         length |-> length,
         exhaustion_strategy |-> ExhaustionStrategy_default,
         rng |-> rng2,
         skip |-> None,
         skip_before_next |-> FALSE]

with_alphabet_and_rng(alphabet, length, rng, o) ==
    LET m_base == Len(alphabet)
        m == Pow(m_base, length)
        a == generate_a(m_base)
        lcm_seed == gen_range(rng, o)
        rng1 == rng_advance(rng)
        offset == gen_range(rng1, o)
        rng2 == rng_advance(rng1)
    IN  [alphabet |-> alphabet,
         lcm |-> LinearCongruentMultiplier_new(lcm_seed, m, 1, a),
         offset |-> offset,
         length |-> length,
         exhaustion_strategy |-> ExhaustionStrategy_default,
         rng |-> rng2,
         skip |-> None,
         skip_before_next |-> FALSE]

exhaustion_strategy(g, strategy) == [g EXCEPT !.exhaustion_strategy = strategy]

\* kept writing back the skip count only
kept_skip_only(fresh, g) == [fresh EXCEPT !.skip = g.skip]

\* the fields of the old generator g that step writes back into the rebuilt one
kept(fresh, g) == [fresh EXCEPT !.skip = g.skip, !.skip_before_next = g.skip_before_next]

\* increase_length rebuilding at the same length
increase_length_same_length(g, o) ==
    kept(with_alphabet_and_rng(g.alphabet, g.length, g.rng, o), g)

\* increase_length keeping the offset of the old generator
increase_length_old_offset(g, o) ==
    [kept(with_alphabet_and_rng(g.alphabet, g.length + 1, g.rng, o), g)
        EXCEPT !.offset = g.offset]

\* increase_length keeping the integer generator of the old generator
increase_length_old_lcm(g, o) ==
    [kept(with_alphabet_and_rng(g.alphabet, g.length + 1, g.rng, o), g)
        EXCEPT !.lcm = g.lcm]

\* the IncreaseLength arm of step: the generator rebuilt one symbol longer
\* from a clone of the retained rng, skip and skip_before_next kept
increase_length(g, o) ==
    kept(with_alphabet_and_rng(g.alphabet, g.length + 1, g.rng, o), g)

\* the last line of step, self.lcm.next(): [g: the generator afterwards,
\* val: the value returned, panic]
drawn(h) == [g |-> [h EXCEPT !.lcm = lcm_next(h.lcm)], val |-> h.lcm.next, panic |-> FALSE]

\* panicked leaving the integer generator no longer exhausted
panicked_and_reset(g) ==
    [g |-> [g EXCEPT !.lcm.exhausted = FALSE], val |-> 0, raw |-> 0, panic |-> TRUE]

\* panic!("Exhausted."): the call fails and the generator is left as it is
panicked(g) == [g |-> g, val |-> 0, raw |-> 0, panic |-> TRUE]

\* step whose IncreaseLength arm does nothing, as the Cycle arm
step_never_grows(g, o) ==
    IF lcm_exhausted(g.lcm) /\ g.exhaustion_strategy = Panic
    THEN panicked(g)
    ELSE drawn(g)

\* step whose Panic arm does nothing, as the Cycle arm
step_never_panics(g, o) ==
    drawn(IF lcm_exhausted(g.lcm) /\ g.exhaustion_strategy = IncreaseLength
          THEN increase_length(g, o)
          ELSE g)

\* step whose Cycle arm panics, as the Panic arm
step_cycle_panics(g, o) ==
    IF lcm_exhausted(g.lcm) /\ g.exhaustion_strategy # IncreaseLength
    THEN panicked(g)
    ELSE drawn(IF lcm_exhausted(g.lcm) THEN increase_length(g, o) ELSE g)

\* step: [g: the generator afterwards, val: the value returned, panic]
step(g, o) ==
    IF lcm_exhausted(g.lcm) /\ g.exhaustion_strategy = Panic
    THEN panicked(g)
    ELSE drawn(IF lcm_exhausted(g.lcm) /\ g.exhaustion_strategy = IncreaseLength
               THEN increase_length(g, o)
               ELSE g)

\* the loop `for _ in 0..skip { self.step(); }` of next_int: k more steps,
\* s being what the last step returned; a panic ends the loop
RECURSIVE skip_steps(_, _, _)
skip_steps(s, k, o) ==
    IF s.panic \/ k = 0 THEN s ELSE skip_steps(step(s.g, o), k - 1, o)

\* the first statement of next_int: the skipped steps, or the flag set
skipped(g, o) ==
    IF g.skip_before_next
    THEN skip_steps([g |-> g, panic |-> FALSE], unwrap_or_default(g.skip), o)
    ELSE [g |-> [g EXCEPT !.skip_before_next = TRUE], panic |-> FALSE]

\* (result + self.offset) % self.lcm.m on what step returned
offset_result(s) ==
    IF s.panic THEN panicked(s.g)
    ELSE [g |-> s.g, raw |-> s.val, val |-> (s.val + s.g.offset) % s.g.lcm.m,
          panic |-> FALSE]

\* the step of next_int whose value is returned, after the skipped ones
returned_step(a, o) == IF a.panic THEN panicked(a.g) ELSE step(a.g, o)

\* next_int: [g, raw: the value step returned, val: the value returned, panic]
next_int(g, o) == offset_result(returned_step(skipped(g, o), o))

\* push_digits with the most significant digit first
RECURSIVE push_digits_msd_first(_, _, _)
push_digits_msd_first(alphabet, value, n) ==
    IF n = 0 THEN <<>>
    ELSE push_digits_msd_first(alphabet, value \div Len(alphabet), n - 1)
         \o <<alphabet[(value % Len(alphabet)) + 1]>>

\* the loop of next_vec: n symbols of value, least significant digit first
RECURSIVE push_digits(_, _, _)
push_digits(alphabet, value, n) ==
    IF n = 0 THEN <<>>
    ELSE <<alphabet[(value % Len(alphabet)) + 1]>>
         \o push_digits(alphabet, value \div Len(alphabet), n - 1)

\* what next_vec makes of the value r that next_int returned; the alphabet
\* is read before the call and the length after it
vec_result(alphabet, r) ==
    IF r.panic THEN [g |-> r.g, ok |-> FALSE, code |-> <<>>, val |-> 0, raw |-> 0]
    ELSE [g |-> r.g, ok |-> TRUE,
          code |-> push_digits(alphabet, r.val, r.g.length),
          val |-> r.val, raw |-> r.raw]

\* next_vec: [g, ok, code, val, raw]
next_vec(g, o) == vec_result(g.alphabet, next_int(g, o))

\* the loop `for _ in 0..offset { gen.next_int(); }` of into_parallel_generators:
\* k more calls, r being what the last call returned
RECURSIVE advance(_, _, _)
advance(r, k, o) ==
    IF r.panic \/ k = 0 THEN r ELSE advance(next_int(r.g, o), k - 1, o)

\* as_partition leaving skip_before_next as the advance left it
as_partition_flag_left(r, skip) ==
    IF r.panic THEN [g |-> r.g, panic |-> TRUE]
    ELSE [g |-> [r.g EXCEPT !.skip = Some(skip)], panic |-> FALSE]

\* the end of the closure: skip_before_next and skip set on the advanced clone
as_partition(r, skip) ==
    IF r.panic THEN [g |-> r.g, panic |-> TRUE]
    ELSE [g |-> [r.g EXCEPT !.skip_before_next = FALSE, !.skip = Some(skip)],
          panic |-> FALSE]

\* parallel_generator skipping `generators` values, not generators - 1
parallel_generator_skip_n(g, generators, offset, o) ==
    IF is_some(g.skip) THEN [g |-> g, panic |-> TRUE]
    ELSE as_partition(advance([g |-> g, panic |-> FALSE], offset, o), generators)

\* parallel_generator without the `offset` calls of next_int
parallel_generator_no_phase(g, generators, offset, o) ==
    IF is_some(g.skip) THEN [g |-> g, panic |-> TRUE]
    ELSE as_partition([g |-> g, panic |-> FALSE], generators - 1)

\* the closure of into_parallel_generators for one offset
parallel_generator(g, generators, offset, o) ==
    IF is_some(g.skip) THEN [g |-> g, panic |-> TRUE]
    ELSE as_partition(advance([g |-> g, panic |-> FALSE], offset, o), generators - 1)

\* .collect(): the generators made, unless a closure call panicked
collect(made) ==
    IF \E i \in 1..Len(made) : made[i].panic
    THEN [panic |-> TRUE, gens |-> <<>>]
    ELSE [panic |-> FALSE, gens |-> [i \in 1..Len(made) |-> made[i].g]]

\* into_parallel_generators: [panic, gens]; the closure runs for offset
\* 0, 1, ... in turn and the first panic ends the call
into_parallel_generators(g, generators, o) ==
    collect([i \in 1..generators |-> parallel_generator(g, generators, i - 1, o)])

\* --------------------------------------------- the seed source's next values
\* the range of the p-th value of the stream: values 2k+1 and 2k+2 are the
\* seed and the offset of the k-th (re)build, drawn from 0..m with m the
\* modulus of that build
RangeAt(g, p) ==
    Pow(Len(g.alphabet), g.length + 1 - (g.rng.word_pos \div 2) + ((p - 1) \div 2))

RECURSIVE Futures(_, _, _)
Futures(g, from, k) ==
    IF k <= 0 THEN {<<>>}
    ELSE {<<v>> \o f : v \in {x \in 0..(RangeAt(g, from + 1) - 1) : x <= MaxReseed},
                       f \in Futures(g, from + 1, k - 1)}

\* the furthest stream position the generators gs have read
MaxPos(gs) ==
    IF gs = <<>> THEN 0
    ELSE CHOOSE p \in {gs[i].rng.word_pos : i \in 1..Len(gs)} :
            \A i \in 1..Len(gs) : gs[i].rng.word_pos <= p

\* ----------------------------------------------------------------- state
NoPar == [called |-> FALSE]

\* the state after with_alphabet_and_rng(alphabet, length, rng): an alphabet of
\* 1..maxAlphabet symbols, a length in 0..maxLength, and the two values the
\* rng yields for the seed and the offset
Constructed(maxAlphabet, maxLength) ==
    /\ \E b \in 1..maxAlphabet, L \in 0..maxLength :
         \E seed \in 0..(Pow(b, L) - 1), offset \in 0..(Pow(b, L) - 1) :
            /\ draws = <<seed, offset>>
            /\ gen = with_alphabet_and_rng(Alphabet(b), L, [word_pos |-> 0], draws)
    /\ outs = <<>>
    /\ par = NoPar
    /\ parts = <<>>
    /\ pouts = <<>>
    /\ redo = None
    /\ lcm = None
    /\ seen = <<>>

Init == Constructed(MaxAlphabet, MaxLength)

\* the state after with_alphabet_and_rng(..).exhaustion_strategy(Panic)
InitPanic ==
    /\ \E b \in 1..MaxAlphabet, L \in 0..MaxLength :
         \E seed \in 0..(Pow(b, L) - 1), offset \in 0..(Pow(b, L) - 1) :
            /\ draws = <<seed, offset>>
            /\ gen = exhaustion_strategy(
                        with_alphabet_and_rng(Alphabet(b), L, [word_pos |-> 0], draws),
                        Panic)
    /\ outs = <<>>
    /\ par = NoPar
    /\ parts = <<>>
    /\ pouts = <<>>
    /\ redo = None
    /\ lcm = None
    /\ seen = <<>>

InitPar == Constructed(MaxParAlphabet, MaxParLength)

Returned(r) == [ok |-> r.ok, code |-> r.code, val |-> r.val, raw |-> r.raw,
                length |-> r.g.length, m |-> r.g.lcm.m, offset |-> r.g.offset]

\* the stream values a call reads beyond those already yielded, the call
\* leaving the rng at position pos: every choice of them
Fresh(g, pos) == Futures(g, Len(draws), pos - Len(draws))

\* gen = gen.exhaustion_strategy(strategy), the builder call made before use
SetStrategy(strategy) ==
    /\ outs = <<>>
    /\ ~par.called
    /\ gen' = exhaustion_strategy(gen, strategy)
    /\ UNCHANGED <<outs, par, parts, pouts, redo, draws, lcm, seen>>

\* the effect of gen.next_vec() returning r over the stream o
NextVecReturns(r, o) ==
    /\ gen' = r.g
    /\ outs' = Append(outs, Returned(r))
    /\ draws' = o
    /\ UNCHANGED <<par, parts, pouts, redo, lcm, seen>>

\* gen.next_vec(), while gen has made fewer than maxCalls calls
NextVecUpTo(maxCalls) ==
    /\ ~par.called
    /\ Len(outs) < maxCalls
    /\ \E fut \in Fresh(gen, next_vec(gen, draws).g.rng.word_pos) :
         NextVecReturns(next_vec(gen, draws \o fut), draws \o fut)

\* the effect of gen.into_parallel_generators(n) returning r over the stream o
IntoParallelReturns(n, r, o) ==
    /\ par' = [called |-> TRUE, n |-> n, panic |-> r.panic, src |-> gen]
    /\ parts' = r.gens
    /\ pouts' = [i \in 1..Len(r.gens) |-> <<>>]
    /\ draws' = o
    /\ UNCHANGED <<gen, outs, redo, lcm, seen>>

\* gen.into_parallel_generators(n), after G' = gen.clone()
IntoParallel(n) ==
    /\ ~par.called
    /\ \E fut \in Fresh(gen, MaxPos(into_parallel_generators(gen, n, draws).gens)) :
         IntoParallelReturns(n, into_parallel_generators(gen, n, draws \o fut), draws \o fut)

\* the effect of parts[i].next_vec() returning r over the stream o
PartNextVecReturns(i, r, o) ==
    /\ parts' = [parts EXCEPT ![i] = r.g]
    /\ pouts' = [pouts EXCEPT ![i] = Append(@, Returned(r))]
    /\ draws' = o
    /\ UNCHANGED <<gen, outs, par, redo, lcm, seen>>

\* a generator that was moved into a call taking `self` by value
Moved == [moved |-> TRUE]

\* parts[i].next_vec()
PartNextVec(i) ==
    /\ i \in 1..Len(parts)
    /\ parts[i] # Moved
    /\ Len(pouts[i]) < MaxPartCalls
    /\ \E fut \in Fresh(parts[i], next_vec(parts[i], draws).g.rng.word_pos) :
         PartNextVecReturns(i, next_vec(parts[i], draws \o fut), draws \o fut)

\* the effect of parts[i].clone().into_parallel_generators(n) returning r
RepartitionReturns(n, r) ==
    /\ redo' = Some([n |-> n, panic |-> r.panic, count |-> Len(r.gens)])
    /\ UNCHANGED <<gen, outs, par, parts, pouts, draws, lcm, seen>>

\* parts[i].clone().into_parallel_generators(n)
Repartition(i, n) ==
    /\ i \in 1..Len(parts)
    /\ redo = None
    /\ RepartitionReturns(n, into_parallel_generators(parts[i], n, draws))

\* the effect of parts[i].into_parallel_generators(n) returning r: the
\* partition itself is moved into the call (`self` by value) and dropped by it
PartIntoParallelReturns(i, n, r) ==
    /\ redo' = Some([n |-> n, panic |-> r.panic, count |-> Len(r.gens),
                     source |-> i, before |-> parts[i]])
    /\ parts' = [parts EXCEPT ![i] = Moved]
    /\ UNCHANGED <<gen, outs, par, pouts, draws, lcm, seen>>

\* parts[i].into_parallel_generators(n)
PartIntoParallel(i, n) ==
    /\ i \in 1..Len(parts)
    /\ redo = None
    /\ PartIntoParallelReturns(i, n, into_parallel_generators(parts[i], n, draws))

NextVec == NextVecUpTo(MaxCalls)

NextVecPar == NextVecUpTo(MaxSplitAt)

\* one generator, never partitioned
Next ==
    \/ \E s \in ExhaustionStrategy : SetStrategy(s)
    \/ NextVec

Spec == Init /\ [][Next]_vars

\* a generator that is partitioned after at most MaxSplitAt calls
NextPar ==
    \/ \E s \in ExhaustionStrategy : SetStrategy(s)
    \/ NextVecPar
    \/ \E n \in 0..MaxParts : IntoParallel(n)
    \/ \E i \in 1..MaxParts : PartNextVec(i)

SpecPar == InitPar /\ [][NextPar]_vars

\* the same, with into_parallel_generators called on a clone of a partition
NextRe ==
    \/ NextPar
    \/ \E i \in 1..MaxParts, n \in 0..MaxParts : Repartition(i, n)

SpecRe == InitPar /\ [][NextRe]_vars

\* a fresh generator under Panic that is partitioned before its first call
NextPanic ==
    \/ \E n \in 0..MaxParts : IntoParallel(n)
    \/ \E i \in 1..MaxParts : PartNextVec(i)

SpecPanic == InitPanic /\ [][NextPanic]_vars

\* the same, with into_parallel_generators called on a partition itself
NextInto ==
    \/ NextPar
    \/ \E i \in 1..MaxParts, n \in 0..MaxParts : PartIntoParallel(i, n)

SpecInto == InitPar /\ [][NextInto]_vars

\* ------------------------------------------- properties of one generator
\* the alphabet size b, the code length L the constructor was given (every
\* rebuild adds one to the length and reads two values of the stream), and
\* the modulus m = b^L it computed
AlphabetSize == Len(gen.alphabet)
Length0 == gen.length + 1 - (gen.rng.word_pos \div 2)
Modulus0 == Pow(AlphabetSize, Length0)

Min(x, y) == IF x <= y THEN x ELSE y

\* every code of n symbols over the alphabet
AllCodes(alphabet, n) == [1..n -> {alphabet[i] : i \in 1..Len(alphabet)}]

Codes(from, to) == {outs[i].code : i \in from..to}

\* C1: under Cycle, for every seed and offset, the first m calls of next_vec
\* return m pairwise distinct codes, which are all the codes of L symbols, and
\* call m + 1 returns the code of call 1.
C1_FullPeriodUnderCycle ==
    gen.exhaustion_strategy = Cycle =>
        /\ \A i \in 1..Len(outs) : outs[i].ok
        /\ \A i, j \in 1..Min(Len(outs), Modulus0) :
             i # j => outs[i].code # outs[j].code
        /\ Len(outs) >= Modulus0 =>
             Codes(1, Modulus0) = AllCodes(gen.alphabet, Length0)
        /\ Len(outs) >= Modulus0 + 1 => outs[Modulus0 + 1].code = outs[1].code

C1_Witness ==
    /\ gen.exhaustion_strategy = Cycle
    /\ Modulus0 = 9
    /\ Len(outs) = Modulus0 + 1
    /\ outs[1].val # 0

\* C2: under IncreaseLength every call of next_vec on one unpartitioned
\* generator succeeds and no two calls return the same code, also across
\* rebuilds.
C2_NoCollisionUnderIncreaseLength ==
    gen.exhaustion_strategy = IncreaseLength =>
        /\ \A i \in 1..Len(outs) : outs[i].ok
        /\ \A i, j \in 1..Len(outs) : i # j => outs[i].code # outs[j].code

C2_Witness ==
    /\ gen.exhaustion_strategy = IncreaseLength
    /\ Modulus0 = 2
    /\ Len(outs) >= 8
    /\ gen.length = Length0 + 2

\* C5: under IncreaseLength each of the first m calls returns a code of L
\* symbols and call m + 1 returns a code of L + 1 symbols.
C5_GrowthOnCallMPlus1 ==
    gen.exhaustion_strategy = IncreaseLength =>
        /\ \A i \in 1..Min(Len(outs), Modulus0) :
             outs[i].ok /\ Len(outs[i].code) = Length0
        /\ Len(outs) >= Modulus0 + 1 =>
             /\ outs[Modulus0 + 1].ok
             /\ Len(outs[Modulus0 + 1].code) = Length0 + 1

C5_Witness ==
    /\ gen.exhaustion_strategy = IncreaseLength
    /\ Modulus0 = 9
    /\ Len(outs) = Modulus0 + 1
    /\ Len(outs[Modulus0].code) = 2
    /\ Len(outs[Modulus0 + 1].code) = 3

\* C6: under Panic each of the first m calls succeeds with a code of L
\* symbols and call m + 1 fails.
C6_PanicOnCallMPlus1 ==
    gen.exhaustion_strategy = Panic =>
        /\ \A i \in 1..Min(Len(outs), Modulus0) :
             outs[i].ok /\ Len(outs[i].code) = Length0
        /\ Len(outs) >= Modulus0 + 1 => ~outs[Modulus0 + 1].ok

C6_Witness ==
    /\ gen.exhaustion_strategy = Panic
    /\ Modulus0 = 4
    /\ Len(outs) = Modulus0 + 1
    /\ outs[Modulus0].ok
    /\ ~outs[Modulus0 + 1].ok

\* C8: under Cycle call k + m returns the code of call k, two calls return
\* the same code only a multiple of m calls apart (so the m - 1 other codes
\* are each returned once in between), and no call fails or changes the
\* length, the modulus or the offset.
C8_CyclePeriodic ==
    gen.exhaustion_strategy = Cycle =>
        /\ \A k \in 1..Len(outs) :
             k + Modulus0 <= Len(outs) => outs[k + Modulus0].code = outs[k].code
        /\ \A i, j \in 1..Len(outs) :
             (i < j /\ outs[i].code = outs[j].code) =>
                /\ (j - i) % Modulus0 = 0
                /\ Cardinality(Codes(i + 1, i + Modulus0)) = Modulus0
        /\ \A i \in 1..Len(outs) :
             /\ outs[i].ok
             /\ outs[i].length = Length0
             /\ outs[i].m = Modulus0
             /\ outs[i].offset = draws[2]
        /\ Len(draws) = 2

C8_Witness ==
    /\ gen.exhaustion_strategy = Cycle
    /\ Modulus0 = 4
    /\ Len(outs) = 2 * Modulus0 + 2
    /\ outs[2].code = outs[2 + 2 * Modulus0].code
    /\ outs[2].code # outs[1].code

\* C9: a generator constructed over an alphabet of one symbol, or with code
\* length 0, never returns a code (its construction is refused).
C9_InvalidInputsRejected ==
    (AlphabetSize = 1 \/ Length0 = 0) => \A i \in 1..Len(outs) : ~outs[i].ok

\* C10: every code returned has exactly `length` symbols, symbol i (from 0)
\* being alphabet[(v div b^i) mod b] with v = (raw + offset) mod m the value
\* of next_int; and distinct values below m give distinct codes.
C10_CodeMapping ==
    /\ \A k \in 1..Len(outs) :
         outs[k].ok =>
            /\ outs[k].val = (outs[k].raw + outs[k].offset) % outs[k].m
            /\ Len(outs[k].code) = outs[k].length
            /\ \A i \in 0..(outs[k].length - 1) :
                 outs[k].code[i + 1] =
                    gen.alphabet[((outs[k].val \div Pow(AlphabetSize, i)) % AlphabetSize) + 1]
    /\ Cardinality({push_digits(gen.alphabet, v, gen.length) : v \in 0..(gen.lcm.m - 1)})
         = gen.lcm.m

C10_Witness ==
    /\ Len(outs) >= 1
    /\ outs[Len(outs)].ok
    /\ outs[Len(outs)].length = 2
    /\ AlphabetSize = 3
    /\ outs[Len(outs)].offset > 0
    /\ outs[Len(outs)].val >= 3
    /\ outs[Len(outs)].val # outs[Len(outs)].raw
    /\ outs[Len(outs)].code[1] # outs[Len(outs)].code[2]


\* ------------------------------------------------------------- partitions
\* what the k-th call of next_vec returns on a generator in state g, over
\* the stream o (k >= 1)
RECURSIVE nth_next_vec(_, _, _)
nth_next_vec(g, k, o) ==
    IF k = 1 THEN next_vec(g, o) ELSE nth_next_vec(next_vec(g, o).g, k - 1, o)

Outcome(r) == [ok |-> r.ok, code |-> r.code]

\* the calls made on the partitions so far: <<partition, call>>, from 1
PartCalls == {c \in (1..Len(parts)) \X (1..MaxPartCalls) : c[2] <= Len(pouts[c[1]])}

\* the logical slot (from 0) that call j of partition i serves
Slot(i, j) == (j - 1) * par.n + (i - 1)

\* C3: with G' the clone of G and P = G.into_parallel_generators(n), call
\* floor(k/n) + 1 of partition k mod n returns what call k + 1 of G' returns,
\* also across exhaustion and growth.
C3_PartitionEquivalence ==
    par.called =>
        \A c \in PartCalls :
            Outcome(pouts[c[1]][c[2]])
                = Outcome(nth_next_vec(par.src, Slot(c[1], c[2]) + 1, draws))

C3_Witness ==
    /\ par.called
    /\ par.n = 3
    /\ par.src.exhaustion_strategy = IncreaseLength
    /\ Len(par.src.alphabet) = 2
    /\ par.src.skip_before_next
    /\ \A i \in 1..3 : Len(pouts[i]) = 3
    /\ Len(pouts[1][1].code) < Len(pouts[1][2].code)
    /\ Len(pouts[3][2].code) < Len(pouts[3][3].code)

\* C4: under IncreaseLength, however the calls on the partitions interleave,
\* every call succeeds and no code is returned twice, by one partition or by
\* two.
C4_PartitionsNeverCollide ==
    (par.called /\ par.src.exhaustion_strategy = IncreaseLength) =>
        \A c, d \in PartCalls :
            /\ pouts[c[1]][c[2]].ok
            /\ c # d => pouts[c[1]][c[2]].code # pouts[d[1]][d[2]].code

C4_Witness ==
    /\ par.called
    /\ par.n = 2
    /\ par.src.exhaustion_strategy = IncreaseLength
    /\ Len(pouts[1]) = 1
    /\ Len(pouts[2]) = 3
    /\ Len(pouts[2][1].code) = 1
    /\ Len(pouts[2][2].code) = 2
    /\ Len(pouts[2][3].code) = 2

\* the generators there are: G until it is split, then the partitions
Generators == IF par.called THEN {parts[i] : i \in 1..Len(parts)} ELSE {gen}

\* the generator g is due for a rebuild: its next step takes the
\* IncreaseLength arm
RebuildDue(g) == lcm_exhausted(g.lcm) /\ g.exhaustion_strategy = IncreaseLength

\* what the rebuilding step makes of g, for every seed and offset the seed
\* source may yield
Rebuilt(g) == {step(g, draws \o fut).g : fut \in Fresh(g, g.rng.word_pos + 2)}

\* C16: a growth rebuild adds exactly 1 to the length and leaves the
\* alphabet, the exhaustion strategy, the skip count and skip_before_next as
\* they were; the seed source has yielded two more values, and the integer
\* generator is a new one for the longer codes.
C16_RebuildFrame ==
    \A g \in Generators :
        RebuildDue(g) =>
            \A h \in Rebuilt(g) :
                /\ h.length = g.length + 1
                /\ h.alphabet = g.alphabet
                /\ h.exhaustion_strategy = g.exhaustion_strategy
                /\ h.skip = g.skip
                /\ h.skip_before_next = g.skip_before_next
                /\ h.rng.word_pos = g.rng.word_pos + 2
                /\ h.lcm.m = Pow(Len(g.alphabet), g.length + 1)

\* a partition with a skip count and a pending skip that has been rebuilt
\* once and is due for a rebuild again
C16_Witness ==
    /\ par.called
    /\ par.n = 2
    /\ Len(par.src.alphabet) = 2
    /\ par.src.length = 1
    /\ Len(parts) = 2
    /\ Len(pouts[2]) = 3
    /\ parts[2].length = 2
    /\ parts[2].skip = Some(1)
    /\ parts[2].skip_before_next
    /\ RebuildDue(parts[2])
    /\ \E h \in Rebuilt(parts[2]) : h.offset # parts[2].offset

\* C17: in every reachable state of G and of its partitions the modulus is
\* alphabet_size ^ length, the offset is in [0, modulus), and the integer
\* generator's first and current values are in [0, modulus).
C17_StateInvariant ==
    \A g \in Generators :
        /\ g.lcm.m = Pow(Len(g.alphabet), g.length)
        /\ g.offset \in 0..(g.lcm.m - 1)
        /\ g.lcm.first \in 0..(g.lcm.m - 1)
        /\ g.lcm.next \in 0..(g.lcm.m - 1)

\* a partition after a rebuild, with a seed, an offset and a current value
\* other than 0
C17_Witness ==
    /\ par.called
    /\ Len(parts) = 3
    /\ parts[3].length = par.src.length + 1
    /\ parts[3].lcm.m = 4
    /\ parts[3].offset = 1
    /\ parts[3].lcm.first = 1
    /\ parts[3].lcm.next = 2
    /\ Len(pouts[3]) = 1

\* calls i < j made on one generator, the earlier of which failed
FailedThenCalled(calls) ==
    {c \in (1..Len(calls)) \X (1..Len(calls)) : c[1] < c[2] /\ ~calls[c[1]].ok}

\* C18: on G and on every partition, once a call of next_vec has failed
\* every later call on that generator fails; a call fails only under Panic,
\* never under Cycle or IncreaseLength.
C18_PanicIsTerminal ==
    /\ \A c \in FailedThenCalled(outs) : ~outs[c[2]].ok
    /\ \A k \in 1..Len(outs) : ~outs[k].ok => gen.exhaustion_strategy = Panic
    /\ \A i \in 1..Len(pouts) :
         /\ \A c \in FailedThenCalled(pouts[i]) : ~pouts[i][c[2]].ok
         /\ \A k \in 1..Len(pouts[i]) :
              ~pouts[i][k].ok => par.src.exhaustion_strategy = Panic

\* a partition under Panic whose second and third calls failed
C18_Witness ==
    /\ par.called
    /\ par.n = 2
    /\ Len(parts) = 2
    /\ par.src.exhaustion_strategy = Panic
    /\ par.src.lcm.m = 2
    /\ Len(pouts[1]) = 3
    /\ pouts[1][1].ok
    /\ ~pouts[1][2].ok
    /\ ~pouts[1][3].ok

\* the code of logical slot s of the generator g as constructed: the s-fold
\* iterate of the seed, offset, in the digits of the alphabet
SlotCode(g, s) ==
    push_digits(g.alphabet,
                (Iterate(g.lcm.first, g.lcm.m, g.lcm.c, g.lcm.a, s) + g.offset) % g.lcm.m,
                g.length)

\* the codes the partitions have returned
PartCodes == {pouts[c[1]][c[2]].code : c \in {d \in PartCalls : pouts[d[1]][d[2]].ok}}

\* C19: a fresh generator under Panic with modulus m, split into n
\* partitions, 1 <= n <= m: call j of partition i returns the code of slot
\* (i - 1) + (j - 1) * n while that slot is below m and fails from then on;
\* no code is returned twice, and once every partition has failed the
\* partitions have returned each of the m codes.
C19_PanicPartitionsCoverOnce ==
    (/\ par.called
     /\ outs = <<>>
     /\ par.src.exhaustion_strategy = Panic
     /\ par.n \in 1..par.src.lcm.m) =>
        /\ ~par.panic
        /\ Len(parts) = par.n
        /\ \A c \in PartCalls :
             IF Slot(c[1], c[2]) < par.src.lcm.m
             THEN /\ pouts[c[1]][c[2]].ok
                  /\ pouts[c[1]][c[2]].code = SlotCode(par.src, Slot(c[1], c[2]))
             ELSE ~pouts[c[1]][c[2]].ok
        /\ \A c, d \in PartCalls :
             (c # d /\ pouts[c[1]][c[2]].ok /\ pouts[d[1]][d[2]].ok) =>
                pouts[c[1]][c[2]].code # pouts[d[1]][d[2]].code
        /\ (\A i \in 1..Len(parts) : \E j \in 1..Len(pouts[i]) : ~pouts[i][j].ok) =>
             /\ PartCodes = AllCodes(par.src.alphabet, par.src.length)
             /\ Cardinality(PartCodes) = par.src.lcm.m

\* four codes over two partitions, each of which has then failed
C19_Witness ==
    /\ par.called
    /\ par.src.exhaustion_strategy = Panic
    /\ par.src.lcm.m = 4
    /\ par.src.offset = 3
    /\ par.n = 2
    /\ Len(parts) = 2
    /\ \A i \in 1..2 :
         /\ Len(pouts[i]) = 3
         /\ pouts[i][1].ok /\ pouts[i][2].ok /\ ~pouts[i][3].ok
    /\ Cardinality(PartCodes) = 4

\* C7: into_parallel_generators(n) on a partition fails and returns no
\* generators, for every n >= 0.
C7_RepartitionRefused ==
    redo # None => (redo[1].panic /\ redo[1].count = 0)

\* the seed source as the generator retained it after n builds
RetainedRng(n) == [word_pos |-> 2 * n]

\* the fresh generator that the rebuild made by call k is to equal: the same
\* alphabet, one symbol more than call k - 1 returned, and the seed source as
\* retained by the build before
FreshAt(k) ==
    with_alphabet_and_rng(gen.alphabet, outs[k - 1].length + 1,
                          RetainedRng(outs[k - 1].length - Length0 + 1), draws)

\* the calls that rebuilt the generator
Growths == {k \in 2..Len(outs) : outs[k].length = outs[k - 1].length + 1}

\* the generator as constructed, with the strategy it has now
Constructed0 ==
    exhaustion_strategy(
        with_alphabet_and_rng(gen.alphabet, Length0, RetainedRng(0), draws),
        gen.exhaustion_strategy)

C20_MultiplierSelection ==
    /\ gen.lcm.a = generate_a(AlphabetSize)
    /\ AlphabetSize = 1 => gen.lcm.a = 1 + 1
    /\ AlphabetSize = 2 => gen.lcm.a = 1 + 2 * 2
    /\ AlphabetSize = 3 => gen.lcm.a = 1 + 3
    /\ AlphabetSize = 4 => gen.lcm.a = 1 + 2 * 2
    /\ generate_a(6) = 13
    /\ generate_a(7) = 8
    /\ generate_a(26) = 53
    /\ generate_a(99) = 34

\* the same multiplier at lengths 1, 2 and 3 of one generator
C20_Witness ==
    /\ AlphabetSize = 2
    /\ Length0 = 1
    /\ gen.length = 3
    /\ gen.lcm.a = 5
    /\ Len(outs) = 8
    /\ outs[1].length = 1
    /\ outs[3].length = 2

\* ------------------------------- the LinearCongruentMultiplier on its own
\* LinearCongruentMultiplier::new(seed, m, c, a) for every choice of the
\* parameters within the bounds, full period or not
InitLcm ==
    /\ \E m \in 1..MaxModulus, c \in 0..MaxIncrement, a \in 0..MaxMultiplier :
         \E seed \in 0..(m - 1) :
            lcm = LinearCongruentMultiplier_new(seed, m, c, a)
    /\ seen = <<>>
    /\ gen = None
    /\ draws = <<>>
    /\ outs = <<>>
    /\ par = NoPar
    /\ parts = <<>>
    /\ pouts = <<>>
    /\ redo = None

\* lcm.next(), then lcm.exhausted()
LcmNext ==
    /\ Len(seen) < MaxLcmCalls
    /\ lcm' = lcm_next(lcm)
    /\ seen' = Append(seen, [val |-> lcm.next, exhausted |-> lcm_exhausted(lcm_next(lcm))])
    /\ UNCHANGED <<gen, outs, par, parts, pouts, redo, draws>>

NextLcm == LcmNext

SpecLcm == InitLcm /\ [][NextLcm]_vars

\* m = b^L for some L >= 1 (b >= 2)
RECURSIVE IsPowerOf(_, _)
IsPowerOf(m, b) == m = b \/ (m > b /\ m % b = 0 /\ IsPowerOf(m \div b, b))

\* C12: for every b >= 2 and L >= 1, a multiplier built with m = b^L, c = 1
\* and a = generate_a(b) returns, for every seed below m, m pairwise distinct
\* values in its first m calls, which are all of 0..m-1, and then the seed.
C12_FullPeriodForEverySeed ==
    \A b \in 2..lcm.m :
        (IsPowerOf(lcm.m, b) /\ lcm.c = 1 /\ lcm.a = generate_a(b)) =>
            /\ \A i, j \in 1..Min(Len(seen), lcm.m) :
                 i # j => seen[i].val # seen[j].val
            /\ \A i \in 1..Len(seen) : seen[i].val \in 0..(lcm.m - 1)
            /\ Len(seen) >= lcm.m =>
                 {seen[i].val : i \in 1..lcm.m} = 0..(lcm.m - 1)
            /\ Len(seen) >= lcm.m + 1 =>
                 /\ seen[lcm.m + 1].val = lcm.first
                 /\ seen[lcm.m + 1].val = seen[1].val

C12_Witness ==
    /\ lcm.m = 8
    /\ lcm.c = 1
    /\ lcm.a = generate_a(2)
    /\ lcm.first = 5
    /\ Len(seen) = lcm.m + 1
    /\ seen[lcm.m + 1].val = 5
    /\ Cardinality({seen[i].val : i \in 1..lcm.m}) = 8

\* C13: the k-th call of next() returns the (k-1)-fold iterate of
\* x -> (a * x + c) mod m applied to the seed, and leaves the k-fold iterate
\* as the current value, for every seed, m, c and a.
C13_LcmStep ==
    /\ \A k \in 1..Len(seen) :
         seen[k].val = Iterate(lcm.first, lcm.m, lcm.c, lcm.a, k - 1)
    /\ lcm.next = Iterate(lcm.first, lcm.m, lcm.c, lcm.a, Len(seen))

C13_Witness ==
    /\ lcm.m = 9 /\ lcm.c = 0 /\ lcm.a = 2 /\ lcm.first = 3
    /\ Len(seen) = 3
    /\ seen[1].val = 3 /\ seen[2].val = 6 /\ seen[3].val = 3

\* the sequence has returned to the seed within its first j steps
ReturnedToSeedWithin(j) ==
    \E i \in 1..j : Iterate(lcm.first, lcm.m, lcm.c, lcm.a, i) = lcm.first

\* C14: exhausted() observed after j calls of next() is true exactly when
\* the sequence has returned to the seed within j steps: false before the
\* first call, true from the call that returns the last value of the period,
\* and true ever after.
C14_ExhaustedTiming ==
    /\ lcm_exhausted(lcm) <=> ReturnedToSeedWithin(Len(seen))
    /\ \A j \in 1..Len(seen) : seen[j].exhausted <=> ReturnedToSeedWithin(j)

C14_Witness ==
    /\ lcm.m = 9 /\ lcm.c = 0 /\ lcm.a = 2 /\ lcm.first = 1
    /\ Len(seen) = 7
    /\ ~seen[5].exhausted
    /\ seen[6].exhausted /\ seen[6].val = 5
    /\ seen[7].exhausted /\ seen[7].val = 1
    /\ lcm.next = 2

\* C11: when into_parallel_generators on a partition has failed, the
\* partition it was called on is in the state it had before the call and
\* can still be used.
C11_RefusedSourceIntact ==
    (redo # None /\ redo[1].panic) => parts[redo[1].source] = redo[1].before

====
